---- MODULE Spec2Model ----
(***************************************************************************)
(* Model of ezi/debit.py: a thin client around the Ezidebit SOAP service.  *)
(* One invocation of one operation is followed from the call to the value  *)
(* returned or the exception raised: parsing of card_expiry, the scoped    *)
(* acquisition of the Suds client (EzidebitClient.__enter__ / __exit__),   *)
(* the client constructed again inside the block by four of the            *)
(* operations, the remote call, and the test of the response's Data.       *)
(* The transport and the remote service are the environment: a client      *)
(* construction or a remote call either succeeds or raises one of the      *)
(* connection-level exceptions, and a response is any pair                 *)
(* (Data, ErrorMessage).                                                   *)
(***************************************************************************)
EXTENDS Integers, Sequences, FiniteSets, TLC

VARIABLES pc, op, args, parsed, clients, client, sent, exc, details, outcome,
          failed

vars == <<pc, op, args, parsed, clients, client, sent, exc, details, outcome,
          failed>>

(***************************************************************************)
(* Bounds and input sets                                                   *)
(***************************************************************************)
\* longest card_expiry string given by a caller
MaxLen == 5

\* characters a card_expiry is made of: some digits, the separator, a letter
\* and a sign
Alphabet == {"0", "2", "4", "7", "/", "a", "-"}

Digits == {"0", "1", "2", "3", "4", "5", "6", "7", "8", "9"}

ExpiryStrings == UNION {[1..n -> Alphabet] : n \in 0..MaxLen}

Keys == {"key1", "key2"}

Wsdls == {"wsdlA", "wsdlB"}

\* caller-supplied references: the empty string is a value a caller may pass
Refs == {"", "u42"}

Users == {[username |-> "alice", last_name |-> "Liddell",
           first_name |-> "Alice", email |-> "alice@example.org"]}

(***************************************************************************)
(* Python values of a response: None, booleans, strings, numbers, objects  *)
(***************************************************************************)
PyNone == [ty |-> "None"]

PyBool(b) == [ty |-> "bool", b |-> b]

PyStr(s) == [ty |-> "str", s |-> s]

PyNum(n) == [ty |-> "int", n |-> n]

PyObj(o) == [ty |-> "object", o |-> o]

\* Python truth value testing, as applied by "if not details.Data"
Truthy(v) ==
    CASE v.ty = "None" -> FALSE
      [] v.ty = "bool" -> v.b
      [] v.ty = "str" -> v.s # ""
      [] v.ty = "int" -> v.n # 0
      [] OTHER -> TRUE

DataValues == {PyNone, PyBool(FALSE), PyBool(TRUE), PyStr(""), PyStr("S"),
               PyNum(0), PyObj("CustomerDetails")}

ErrorMessages == {PyNone, PyStr(""), PyStr("Invalid DigitalKey")}

Responses == [Data : DataValues, ErrorMessage : ErrorMessages]

(***************************************************************************)
(* Exceptions                                                              *)
(***************************************************************************)
CONNECTION_ERROR_MSG == PyStr("Could not connect to Ezidebit payment service.")

\* connection-level exceptions the transport raises: urllib.error.URLError,
\* its subclass urllib.error.HTTPError, socket.timeout, suds TransportError
TransportKinds == {"URLError", "HTTPError", "timeout", "TransportError"}

\* issubclass(k, urllib.error.URLError), the test of an except clause
IsURLError(k) == k \in {"URLError", "HTTPError"}

\* the text carried by a raw transport exception
RawText(k) == PyStr(k)

NoExc == "none"

Raise(cls, msg) == [kind |-> "raise", cls |-> cls, msg |-> msg]

Return(v) == [kind |-> "return", value |-> v]

Pending == [kind |-> "none"]

(***************************************************************************)
(* card_expiry parsing: str.split('/'), tuple unpacking and int()          *)
(***************************************************************************)
DigitValue(c) ==
    CASE c = "0" -> 0 [] c = "1" -> 1 [] c = "2" -> 2 [] c = "3" -> 3
      [] c = "4" -> 4 [] c = "5" -> 5 [] c = "6" -> 6 [] c = "7" -> 7
      [] c = "8" -> 8 [] c = "9" -> 9

RECURSIVE DecimalValue(_)
\* value of a non-empty string of digits, most significant digit first
DecimalValue(s) ==
    IF Len(s) = 0 THEN 0
    ELSE 10 * DecimalValue(SubSeq(s, 1, Len(s) - 1)) + DigitValue(s[Len(s)])

AllDigits(s) == \A i \in 1..Len(s) : s[i] \in Digits

\* Python int(s) on a string over Alphabet: an optional sign followed by one
\* or more digits; anything else raises ValueError
PyIntParse(s) ==
    LET signed == Len(s) > 0 /\ s[1] = "-"
        body == IF signed THEN SubSeq(s, 2, Len(s)) ELSE s
    IN  IF Len(body) > 0 /\ AllDigits(body)
        THEN [ok |-> TRUE,
              v |-> IF signed THEN 0 - DecimalValue(body) ELSE DecimalValue(body)]
        ELSE [ok |-> FALSE, v |-> 0]

RECURSIVE Split(_, _)
\* s.split(sep): the pieces of s between the occurrences of sep
Split(s, sep) ==
    IF \A i \in 1..Len(s) : s[i] # sep THEN <<s>>
    ELSE LET i == CHOOSE j \in 1..Len(s) :
                      s[j] = sep /\ \A k \in 1..(j - 1) : s[k] # sep
         IN  <<SubSeq(s, 1, i - 1)>> \o Split(SubSeq(s, i + 1, Len(s)), sep)

\* a variant of ParseYear that forgets the century: int(year)
ParseYearNoCentury(year) == PyIntParse(year)

\* the year converted at lines 100 and 194: int('20' + year)
ParseYear(year) == PyIntParse(<<"2", "0">> \o year)

\* lines 98-100 and 192-194: (month, year) = card_expiry.split('/');
\* month = int(month); year = int('20' + year).  ok is FALSE where Python
\* raises ValueError (unpacking other than two pieces, or int() refusing)
ParseExpiry(s) ==
    LET parts == Split(s, "/")
    IN  IF Len(parts) # 2 THEN [ok |-> FALSE, month |-> 0, year |-> 0]
        ELSE LET m == PyIntParse(parts[1])
                 y == ParseYear(parts[2])
             IN  IF m.ok /\ y.ok
                 THEN [ok |-> TRUE, month |-> m.v, year |-> y.v]
                 ELSE [ok |-> FALSE, month |-> 0, year |-> 0]

NotParsed == [ok |-> FALSE, month |-> 0, year |-> 0]

(***************************************************************************)
(* Operations, their arguments and the requests they send                  *)
(***************************************************************************)
Ops == {"get_customer_details", "add_bank_debit", "add_card_debit",
        "add_payment", "clear_schedule", "edit_customer_bank_account",
        "edit_customer_credit_card"}

\* operations that parse card_expiry before acquiring the client
CardOps == {"add_card_debit", "edit_customer_credit_card"}

\* operations whose block begins with client = suds.client.Client(wsdl)
RebindOps == {"add_payment", "clear_schedule", "edit_customer_bank_account",
              "edit_customer_credit_card"}

Cents == {0, 1500}

\* the arguments a caller may give to operation o; update_by defaults to ''
ArgSets(o) ==
    CASE o = "get_customer_details" ->
           [user_id : Refs, wsdl : Wsdls, key : Keys]
      [] o = "add_bank_debit" ->
           [user : Users, payment_ref : {"inv7"}, cents : Cents,
            due_date : {"2024-01-31"}, acct_name : {"A Liddell"},
            bsb : {"062-000"}, acct_number : {"12345678"},
            wsdl : Wsdls, key : Keys]
      [] o = "add_card_debit" ->
           [user : Users, payment_ref : {"inv7"}, cents : {1500},
            due_date : {"2024-01-31"}, card_name : {"A Liddell"},
            card_number : {"4111111111111111"}, card_expiry : ExpiryStrings,
            wsdl : {"wsdlA"}, key : {"key1"}]
      [] o = "add_payment" ->
           [user : Users, payment_ref : {"inv7"}, cents : Cents,
            due_date : {"2024-01-31"}, wsdl : Wsdls, key : Keys]
      [] o = "clear_schedule" ->
           [ezi_id : Refs, wsdl : Wsdls, key : Keys]
      [] o = "edit_customer_bank_account" ->
           [user_id : Refs, acct_name : {"A Liddell"}, bsb : {"062-000"},
            acct_number : {"12345678"}, wsdl : Wsdls, key : Keys,
            update_by : {"", "admin"}]
      [] o = "edit_customer_credit_card" ->
           [user_id : {"u42"}, card_name : {"A Liddell"},
            card_number : {"4111111111111111"}, card_expiry : ExpiryStrings,
            wsdl : {"wsdlA"}, key : {"key1"}, update_by : {"", "admin"}]

\* the remote operation an operation calls on client.service
RemoteName(o) ==
    CASE o = "get_customer_details" -> "GetCustomerDetails"
      [] o = "add_bank_debit" -> "AddBankDebit"
      [] o = "add_card_debit" -> "AddCardDebit"
      [] o = "add_payment" -> "AddPayment"
      [] o = "clear_schedule" -> "ClearSchedule"
      [] o = "edit_customer_bank_account" -> "EditCustomerBankAccount"
      [] o = "edit_customer_credit_card" -> "EditCustomerCreditCard"

\* lines 43-48
GetCustomerDetailsRequest(a) ==
    [DigitalKey |-> a.key,
     EziDebitCustomerID |-> "",
     YourSystemReference |-> a.user_id]

\* lines 65-83
AddBankDebitRequest(a) ==
    [DigitalKey |-> a.key,
     YourSystemReference |-> a.user.username,
     YourGeneralReference |-> "",
     LastName |-> a.user.last_name,
     FirstName |-> a.user.first_name,
     EmailAddress |-> a.user.email,
     MobilePhoneNumber |-> "",
     PaymentReference |-> a.payment_ref,
     BankAccountName |-> a.acct_name,
     BankAccountBSB |-> a.bsb,
     BankAccountNumber |-> a.acct_number,
     PaymentAmountInCents |-> a.cents,
     DebitDate |-> a.due_date,
     SmsPaymentReminder |-> "NO",
     SmsFailedNotification |-> "NO",
     SmsExpiredCard |-> "NO"]

\* lines 102-121
AddCardDebitRequest(a, p) ==
    [DigitalKey |-> a.key,
     YourSystemReference |-> a.user.username,
     YourGeneralReference |-> "",
     LastName |-> a.user.last_name,
     FirstName |-> a.user.first_name,
     EmailAddress |-> a.user.email,
     MobilePhoneNumber |-> "",
     PaymentReference |-> a.payment_ref,
     NameOnCreditCard |-> a.card_name,
     CreditCardNumber |-> a.card_number,
     CreditCardExpiryYear |-> p.year,
     CreditCardExpiryMonth |-> p.month,
     PaymentAmountInCents |-> a.cents,
     DebitDate |-> a.due_date,
     SmsPaymentReminder |-> "NO",
     SmsFailedNotification |-> "NO",
     SmsExpiredCard |-> "NO"]

\* lines 131-139
AddPaymentRequest(a) ==
    [DigitalKey |-> a.key,
     EziDebitCustomerID |-> "",
     YourSystemReference |-> a.user.username,
     DebitDate |-> a.due_date,
     PaymentAmountInCents |-> a.cents,
     PaymentReference |-> a.payment_ref]

\* a variant of ClearScheduleRequest that asks to keep the manual payments
ClearScheduleRequestKeepsManual(a) ==
    [DigitalKey |-> a.key,
     EziDebitCustomerID |-> a.ezi_id,
     YourSystemReference |-> "",
     KeepManualPayments |-> "YES"]

\* lines 148-153
ClearScheduleRequest(a) ==
    [DigitalKey |-> a.key,
     EziDebitCustomerID |-> a.ezi_id,
     YourSystemReference |-> "",
     KeepManualPayments |-> "NO"]

\* a variant of EditCustomerBankAccountRequest that leaves Username out when
\* update_by is empty
EditCustomerBankAccountRequestOmitsEmpty(a) ==
    IF a.update_by = ""
    THEN [DigitalKey |-> a.key,
          EziDebitCustomerID |-> "",
          BankAccountName |-> a.acct_name,
          BankAccountBSB |-> a.bsb,
          BankAccountNumber |-> a.acct_number,
          YourSystemReference |-> a.user_id,
          Reactivate |-> "YES"]
    ELSE [DigitalKey |-> a.key,
          EziDebitCustomerID |-> "",
          BankAccountName |-> a.acct_name,
          BankAccountBSB |-> a.bsb,
          BankAccountNumber |-> a.acct_number,
          YourSystemReference |-> a.user_id,
          Reactivate |-> "YES",
          Username |-> a.update_by]

\* lines 168-177
EditCustomerBankAccountRequest(a) ==
    [DigitalKey |-> a.key,
     EziDebitCustomerID |-> "",
     BankAccountName |-> a.acct_name,
     BankAccountBSB |-> a.bsb,
     BankAccountNumber |-> a.acct_number,
     YourSystemReference |-> a.user_id,
     Reactivate |-> "YES",
     Username |-> a.update_by]

\* lines 197-207
EditCustomerCreditCardRequest(a, p) ==
    [DigitalKey |-> a.key,
     EziDebitCustomerID |-> "",
     NameOnCreditCard |-> a.card_name,
     CreditCardNumber |-> a.card_number,
     CreditCardExpiryYear |-> p.year,
     CreditCardExpiryMonth |-> p.month,
     YourSystemReference |-> a.user_id,
     Reactivate |-> "YES",
     Username |-> a.update_by]

\* the keyword arguments of the remote call of operation o, from its
\* arguments a and the parsed expiry p
BuildRequest(o, a, p) ==
    CASE o = "get_customer_details" -> GetCustomerDetailsRequest(a)
      [] o = "add_bank_debit" -> AddBankDebitRequest(a)
      [] o = "add_card_debit" -> AddCardDebitRequest(a, p)
      [] o = "add_payment" -> AddPaymentRequest(a)
      [] o = "clear_schedule" -> ClearScheduleRequest(a)
      [] o = "edit_customer_bank_account" -> EditCustomerBankAccountRequest(a)
      [] o = "edit_customer_credit_card" -> EditCustomerCreditCardRequest(a, p)

(***************************************************************************)
(* State                                                                   *)
(*   pc       where the invocation is: idle, parse, enter, rebind, call,   *)
(*            exit, check, done                                            *)
(*   op, args the operation invoked and its arguments                      *)
(*   parsed   month and year obtained from card_expiry                     *)
(*   clients  the Suds clients constructed by the invocation, in order,    *)
(*            each with the place that constructed it                      *)
(*   client   the client the name "client" is bound to (index in clients)  *)
(*   sent     the remote calls issued by the invocation, in order          *)
(*   exc      the exception travelling out of the with block               *)
(*   details  the response of the remote call                              *)
(*   outcome  what the caller gets: a value returned or an exception       *)
(*   failed   the connection-level exceptions the transport raised         *)
(***************************************************************************)
NoOp == "none"

NoArgs == [wsdl |-> "none", key |-> "none"]

NoDetails == [Data |-> PyNone, ErrorMessage |-> PyNone]

Init ==
    /\ pc = "idle"
    /\ op = NoOp
    /\ args = NoArgs
    /\ parsed = NotParsed
    /\ clients = <<>>
    /\ client = 0
    /\ sent = <<>>
    /\ exc = NoExc
    /\ details = NoDetails
    /\ outcome = Pending
    /\ failed = <<>>

\* a caller invokes one of the operations with some arguments
Call ==
    /\ pc = "idle"
    /\ \E o \in Ops : \E a \in ArgSets(o) :
          /\ op' = o
          /\ args' = a
          /\ pc' = IF o \in CardOps THEN "parse" ELSE "enter"
    /\ UNCHANGED <<parsed, clients, client, sent, exc, details, outcome, failed>>

\* lines 98-100, 192-194: card_expiry is split and converted; a ValueError
\* of the unpacking or of int() leaves the function
Parse ==
    /\ pc = "parse"
    /\ LET r == ParseExpiry(args.card_expiry)
       IN  IF r.ok
           THEN /\ parsed' = r
                /\ pc' = "enter"
                /\ UNCHANGED outcome
           ELSE /\ outcome' = Raise("ValueError", PyStr("ValueError"))
                /\ pc' = "done"
                /\ UNCHANGED parsed
    /\ UNCHANGED <<op, args, clients, client, sent, exc, details, failed>>

\* what __enter__ raises when suds.client.Client raises k (lines 22-26):
\* the except clause takes URLError and its subclasses, anything else
\* propagates as it is
EnterRaises(k) ==
    IF IsURLError(k) THEN Raise("EzidebitError", CONNECTION_ERROR_MSG)
    ELSE Raise(k, RawText(k))

\* EzidebitClient.__enter__ (lines 20-27): construct the client
Enter ==
    /\ pc = "enter"
    /\ \/ /\ clients' = Append(clients, [wsdl |-> args.wsdl, by |-> "__enter__"])
          /\ client' = Len(clients) + 1
          /\ pc' = IF op \in RebindOps THEN "rebind" ELSE "call"
          /\ UNCHANGED <<outcome, failed>>
       \/ \E k \in TransportKinds :
             /\ failed' = Append(failed, k)
             /\ outcome' = EnterRaises(k)
             /\ pc' = "done"
             /\ UNCHANGED <<clients, client>>
    /\ UNCHANGED <<op, args, parsed, sent, exc, details>>

\* lines 130, 147, 167, 196: client = suds.client.Client(wsdl) inside the
\* block; an exception goes to __exit__
Rebind ==
    /\ pc = "rebind"
    /\ \/ /\ clients' = Append(clients, [wsdl |-> args.wsdl, by |-> "body"])
          /\ client' = Len(clients) + 1
          /\ pc' = "call"
          /\ UNCHANGED <<exc, failed>>
       \/ \E k \in TransportKinds :
             /\ failed' = Append(failed, k)
             /\ exc' = k
             /\ pc' = "exit"
             /\ UNCHANGED <<clients, client>>
    /\ UNCHANGED <<op, args, parsed, sent, details, outcome>>

\* details = client.service.<RemoteName>(...): the request goes out on the
\* bound client; the service answers or the transport raises
ServiceCall ==
    /\ pc = "call"
    /\ sent' = Append(sent, [name |-> RemoteName(op), client |-> client,
                             fields |-> BuildRequest(op, args, parsed)])
    /\ \/ \E r \in Responses :
             /\ details' = r
             /\ UNCHANGED <<exc, failed>>
       \/ \E k \in TransportKinds :
             /\ failed' = Append(failed, k)
             /\ exc' = k
             /\ UNCHANGED details
    /\ pc' = "exit"
    /\ UNCHANGED <<op, args, parsed, clients, client, outcome>>

\* what leaves the with block when exception k reaches __exit__ (lines
\* 29-33): "type is urllib.error.URLError" holds of URLError itself only
ExitRaises(k) ==
    IF k = "URLError" THEN Raise("EzidebitError", CONNECTION_ERROR_MSG)
    ELSE Raise(k, RawText(k))

\* a variant of Exit that issues the call again after an exception
ExitRetries ==
    /\ pc = "exit"
    /\ IF exc = NoExc
       THEN /\ pc' = "check"
            /\ UNCHANGED <<outcome, exc>>
       ELSE /\ exc' = NoExc
            /\ pc' = "call"
            /\ UNCHANGED outcome
    /\ UNCHANGED <<op, args, parsed, clients, client, sent, details, failed>>

\* EzidebitClient.__exit__ (lines 29-33)
Exit ==
    /\ pc = "exit"
    /\ IF exc = NoExc
       THEN /\ pc' = "check"
            /\ UNCHANGED outcome
       ELSE /\ outcome' = ExitRaises(exc)
            /\ pc' = "done"
    /\ UNCHANGED <<op, args, parsed, clients, client, sent, exc, details, failed>>

\* a variant of GatewayFailure that raises the connection message
GatewayFailureFixedMessage(d) == Raise("EzidebitError", CONNECTION_ERROR_MSG)

\* the exception raised for a response whose Data is falsy (lines 51, 86,
\* 124, 141, 155, 180, 210)
GatewayFailure(d) == Raise("EzidebitError", d.ErrorMessage)

\* a variant of ReturnValue that returns details.Data from every operation
ReturnValueAlwaysData(o, d) == d.Data

\* the value returned on success: details.Data by get_customer_details
\* (line 52), None by the others, which end without a return statement
ReturnValue(o, d) == IF o = "get_customer_details" THEN d.Data ELSE PyNone

\* if not details.Data: raise EzidebitError(details.ErrorMessage)
Check ==
    /\ pc = "check"
    /\ outcome' = IF ~Truthy(details.Data) THEN GatewayFailure(details)
                  ELSE Return(ReturnValue(op, details))
    /\ pc' = "done"
    /\ UNCHANGED <<op, args, parsed, clients, client, sent, exc, details, failed>>

\* the invocation is over; nothing of it is kept for the next one
Finish ==
    /\ pc = "done"
    /\ pc' = "idle"
    /\ op' = NoOp
    /\ args' = NoArgs
    /\ parsed' = NotParsed
    /\ clients' = <<>>
    /\ client' = 0
    /\ sent' = <<>>
    /\ exc' = NoExc
    /\ details' = NoDetails
    /\ outcome' = Pending
    /\ failed' = <<>>

Next ==
    \/ Call
    \/ Parse
    \/ Enter
    \/ Rebind
    \/ ServiceCall
    \/ Exit
    \/ Check
    \/ Finish

Spec == Init /\ [][Next]_vars

(***************************************************************************)
(* Vocabulary of the properties                                            *)
(***************************************************************************)
\* the remote call was issued and the service answered
Responded == sent # <<>> /\ exc = NoExc /\ pc \in {"exit", "check", "done"}

\* the class __enter__ raises for a URLError: the module's connection error
ConnectionErrorKind == EnterRaises("URLError").cls

\* "MM/YY" with MM in 01..12 and YY two digits
WellFormed(s) ==
    /\ Len(s) = 5
    /\ s[3] = "/"
    /\ \A i \in {1, 2, 4, 5} : s[i] \in Digits
    /\ 10 * DigitValue(s[1]) + DigitValue(s[2]) \in 1..12

ExpectedMonth(s) == 10 * DigitValue(s[1]) + DigitValue(s[2])

ExpectedYear(s) == 2000 + 10 * DigitValue(s[4]) + DigitValue(s[5])

\* the invocation is of a card operation and is past the parsing
PastParse == op \in CardOps /\ pc \notin {"idle", "parse"}

\* the field names each operation is to send, whatever its arguments
FieldSet(o) ==
    CASE o = "get_customer_details" ->
           {"DigitalKey", "EziDebitCustomerID", "YourSystemReference"}
      [] o = "add_bank_debit" ->
           {"DigitalKey", "YourSystemReference", "YourGeneralReference",
            "LastName", "FirstName", "EmailAddress", "MobilePhoneNumber",
            "PaymentReference", "BankAccountName", "BankAccountBSB",
            "BankAccountNumber", "PaymentAmountInCents", "DebitDate",
            "SmsPaymentReminder", "SmsFailedNotification", "SmsExpiredCard"}
      [] o = "add_card_debit" ->
           {"DigitalKey", "YourSystemReference", "YourGeneralReference",
            "LastName", "FirstName", "EmailAddress", "MobilePhoneNumber",
            "PaymentReference", "NameOnCreditCard", "CreditCardNumber",
            "CreditCardExpiryYear", "CreditCardExpiryMonth",
            "PaymentAmountInCents", "DebitDate", "SmsPaymentReminder",
            "SmsFailedNotification", "SmsExpiredCard"}
      [] o = "add_payment" ->
           {"DigitalKey", "EziDebitCustomerID", "YourSystemReference",
            "DebitDate", "PaymentAmountInCents", "PaymentReference"}
      [] o = "clear_schedule" ->
           {"DigitalKey", "EziDebitCustomerID", "YourSystemReference",
            "KeepManualPayments"}
      [] o = "edit_customer_bank_account" ->
           {"DigitalKey", "EziDebitCustomerID", "BankAccountName",
            "BankAccountBSB", "BankAccountNumber", "YourSystemReference",
            "Reactivate", "Username"}
      [] o = "edit_customer_credit_card" ->
           {"DigitalKey", "EziDebitCustomerID", "NameOnCreditCard",
            "CreditCardNumber", "CreditCardExpiryYear",
            "CreditCardExpiryMonth", "YourSystemReference", "Reactivate",
            "Username"}

\* the fields for which the caller of operation o with arguments a supplies
\* no value
UnsuppliedFields(o, a) ==
    CASE o \in {"get_customer_details", "add_payment"} -> {"EziDebitCustomerID"}
      [] o \in {"add_bank_debit", "add_card_debit"} ->
           {"YourGeneralReference", "MobilePhoneNumber"}
      [] o = "clear_schedule" -> {"YourSystemReference"}
      [] o \in {"edit_customer_bank_account", "edit_customer_credit_card"} ->
           {"EziDebitCustomerID"} \cup
           (IF a.update_by = "" THEN {"Username"} ELSE {})

(***************************************************************************)
(* C1: whenever the transport raised a connection-level exception, during  *)
(* the construction of a client or during the remote call, the operation   *)
(* fails with the connection error carrying the fixed message, and the raw *)
(* exception does not reach the caller.                                    *)
(***************************************************************************)
C1_ConnectionFailureIsConnectionError ==
    (pc = "done" /\ failed # <<>>) =>
        outcome = Raise(ConnectionErrorKind, CONNECTION_ERROR_MSG)

(***************************************************************************)
(* C2 as stated: when the service answered with Data falsy, the operation  *)
(* raises an error of a kind other than the connection error's, carrying   *)
(* exactly ErrorMessage.                                                   *)
(***************************************************************************)
C2_GatewayErrorIsDistinctKind ==
    (pc = "done" /\ Responded /\ ~Truthy(details.Data)) =>
        /\ outcome.kind = "raise"
        /\ outcome.msg = details.ErrorMessage
        /\ outcome.cls # ConnectionErrorKind

(***************************************************************************)
(* C2 as amended: when the service answered with Data falsy, the operation *)
(* raises EzidebitError, the class also raised for connection failures,    *)
(* carrying exactly ErrorMessage.                                          *)
(***************************************************************************)
C2_GatewayFailureCarriesErrorMessage ==
    (pc = "done" /\ Responded /\ ~Truthy(details.Data)) =>
        /\ outcome = Raise("EzidebitError", details.ErrorMessage)
        /\ outcome.cls = ConnectionErrorKind

C2_Witness ==
    /\ pc = "done"
    /\ Responded
    /\ details.Data = PyStr("")
    /\ details.ErrorMessage = PyStr("Invalid DigitalKey")
    /\ outcome.kind = "raise"

(***************************************************************************)
(* C3: when the service answered with Data truthy, the operation returns:  *)
(* get_customer_details returns Data itself, every other operation None.   *)
(***************************************************************************)
C3_SuccessReturns ==
    (pc = "done" /\ Responded /\ Truthy(details.Data)) =>
        /\ outcome.kind = "return"
        /\ op = "get_customer_details" => outcome.value = details.Data
        /\ op # "get_customer_details" => outcome.value = PyNone

C3_Witness ==
    /\ pc = "done"
    /\ op = "get_customer_details"
    /\ Responded
    /\ details.Data = PyObj("CustomerDetails")
    /\ outcome = Return(PyObj("CustomerDetails"))

(***************************************************************************)
(* C4: a card operation given a well-formed "MM/YY" gets past the parsing  *)
(* and every request it sends carries CreditCardExpiryMonth = MM and       *)
(* CreditCardExpiryYear = 2000 + YY.                                       *)
(***************************************************************************)
C4_WellFormedExpiryTransmitted ==
    (PastParse /\ WellFormed(args.card_expiry)) =>
        /\ parsed.ok
        /\ \A i \in 1..Len(sent) :
              /\ sent[i].fields.CreditCardExpiryMonth =
                     ExpectedMonth(args.card_expiry)
              /\ sent[i].fields.CreditCardExpiryYear =
                     ExpectedYear(args.card_expiry)

C4_Witness ==
    /\ op = "add_card_debit"
    /\ args.card_expiry = <<"0", "4", "/", "2", "7">>
    /\ Len(sent) = 1
    /\ sent[1].fields.CreditCardExpiryMonth = 4
    /\ sent[1].fields.CreditCardExpiryYear = 2027

(***************************************************************************)
(* C5: a card operation given a card_expiry that is not a well-formed      *)
(* "MM/YY" ends at the parsing by raising the validation error (ValueError *)
(* is what the parsing raises) and transmits nothing.                      *)
(***************************************************************************)
C5_MalformedExpiryRejected ==
    (PastParse /\ ~WellFormed(args.card_expiry)) =>
        /\ pc = "done"
        /\ outcome.kind = "raise"
        /\ outcome.cls = "ValueError"
        /\ sent = <<>>

(***************************************************************************)
(* C6: every request carries exactly the field names of its operation,     *)
(* and each field the caller supplied no value for is the empty string.    *)
(***************************************************************************)
C6_CompleteFieldSet ==
    \A i \in 1..Len(sent) :
        /\ DOMAIN sent[i].fields = FieldSet(op)
        /\ \A f \in UnsuppliedFields(op, args) : sent[i].fields[f] = ""

C6_Witness ==
    /\ op = "edit_customer_bank_account"
    /\ args.update_by = ""
    /\ Len(sent) = 1
    /\ sent[1].fields.Username = ""

(***************************************************************************)
(* C7: every request of clear_schedule is a ClearSchedule call carrying    *)
(* KeepManualPayments = 'NO'.                                              *)
(***************************************************************************)
C7_KeepManualPaymentsNo ==
    \A i \in 1..Len(sent) :
        op = "clear_schedule" =>
            /\ sent[i].name = "ClearSchedule"
            /\ sent[i].fields.KeepManualPayments = "NO"

C7_Witness ==
    /\ op = "clear_schedule"
    /\ args.ezi_id = "u42"
    /\ args.key = "key2"
    /\ Len(sent) = 1

(***************************************************************************)
(* C8: an invocation issues at most one remote call; once the transport    *)
(* has raised inside the block or the service has answered, the invocation *)
(* is on its way out, and a failure ends it with an exception raised to    *)
(* the caller.                                                             *)
(***************************************************************************)
C8_AtMostOneRequest ==
    /\ Len(sent) <= 1
    /\ sent # <<>> => pc \in {"exit", "check", "done"}
    /\ failed # <<>> => pc \in {"exit", "done"}
    /\ (pc = "done" /\ (failed # <<>> \/ (Responded /\ ~Truthy(details.Data))))
           => outcome.kind = "raise"

C8_Witness ==
    /\ pc = "done"
    /\ Len(sent) = 1
    /\ failed # <<>>
    /\ outcome.kind = "raise"

(***************************************************************************)
(* C9: an invocation that issues its request has constructed exactly one   *)
(* client, the one of __enter__, and the request goes out on it.           *)
(***************************************************************************)
C9_OneClientPerInvocation ==
    sent # <<>> =>
        /\ Len(clients) = 1
        /\ clients[sent[1].client].by = "__enter__"

(***************************************************************************)
(* C10: a card operation given a card_expiry that is not a well-formed     *)
(* "MM/YY" constructs no client and sends no request.                      *)
(***************************************************************************)
C10_MalformedExpiryNoRemoteEffect ==
    (PastParse /\ ~WellFormed(args.card_expiry)) =>
        /\ clients = <<>>
        /\ sent = <<>>

====
